---------------------------- MODULE Spec2Model ----------------------------
(***************************************************************************)
(* A model of the FINANCE_PROJECT batch pipeline:                          *)
(*   CsvSource.fetch -> normalize_any_bank -> clean_transactions ->        *)
(*   categorize_transactions.                                              *)
(* A data frame is a record [ok, columns, rows]: the ordered column names  *)
(* and the rows in index order, each row a function from column name to    *)
(* cell.  A cell is [t, v]: a null (NaN / NaT / None), a number, a text (a *)
(* sequence of one-character strings) or a timestamp <<day, time of day>>. *)
(***************************************************************************)
EXTENDS Integers, Sequences, FiniteSets, TLC

VARIABLES pc, csv_paths, files, config, raw_df, df, mdf, out, writes, index, order, bank,
          rev, swe, month_str, config_path, csv_paths_none, artifacts, error

vars == <<pc, csv_paths, files, config, raw_df, df, mdf, out, writes, index, order, bank,
          rev, swe, month_str, config_path, csv_paths_none, artifacts, error>>

\* The arguments of run_monthly_report other than the list of paths (csv_paths_none
\* says that None was passed for it), the files it has written and the message
\* of the exception that ended it.
run == <<month_str, config_path, csv_paths_none, artifacts, error>>

---------------------------------------------------------------------------
(* Cells *)

Null == [t |-> "null", v |-> <<>>]
Num(n) == [t |-> "num", v |-> <<n>>]
Text(s) == [t |-> "text", v |-> s]
Ts(d, h) == [t |-> "ts", v |-> <<d, h>>]

IsNull(c) == c.t = "null"
IsNum(c) == c.t = "num"
IsText(c) == c.t = "text"
NumOf(c) == c.v[1]

Range(s) == {s[i] : i \in 1..Len(s)}

\* The greatest element of a set of numbers
Last(S) == CHOOSE k \in S : \A j \in S : j <= k

\* pandas.DataFrame: ok = FALSE stands for a call that raised instead of returning.
Frame(cols, rws) == [ok |-> TRUE, columns |-> cols, rows |-> rws]
Raised == [ok |-> FALSE, columns |-> <<>>, rows |-> <<>>]
NoFrame == Frame(<<>>, <<>>)

---------------------------------------------------------------------------
(* Text: str.upper(), str.lower(), str.strip(), substring test *)

LowerAlpha == <<"a","b","c","d","e","f","g","h","i","j","k","l","m",
                "n","o","p","q","r","s","t","u","v","w","x","y","z">>
UpperAlpha == <<"A","B","C","D","E","F","G","H","I","J","K","L","M",
                "N","O","P","Q","R","S","T","U","V","W","X","Y","Z">>

UpperChar(c) ==
    IF \E i \in 1..Len(LowerAlpha) : LowerAlpha[i] = c
    THEN UpperAlpha[CHOOSE i \in 1..Len(LowerAlpha) : LowerAlpha[i] = c]
    ELSE c

LowerChar(c) ==
    IF \E i \in 1..Len(UpperAlpha) : UpperAlpha[i] = c
    THEN LowerAlpha[CHOOSE i \in 1..Len(UpperAlpha) : UpperAlpha[i] = c]
    ELSE c

RECURSIVE MapChars(_, _)
MapChars(s, up) ==
    IF s = <<>> THEN <<>>
    ELSE <<IF up THEN UpperChar(Head(s)) ELSE LowerChar(Head(s))>> \o MapChars(Tail(s), up)

Upper(s) == MapChars(s, TRUE)
Lower(s) == MapChars(s, FALSE)

RECURSIVE LStrip(_)
LStrip(s) == IF s # <<>> /\ Head(s) = " " THEN LStrip(Tail(s)) ELSE s

RECURSIVE RStrip(_)
RStrip(s) == IF s # <<>> /\ s[Len(s)] = " " THEN RStrip(SubSeq(s, 1, Len(s) - 1)) ELSE s

Strip(s) == RStrip(LStrip(s))

\* Python's `k in t` for strings; the empty string is in every string.
Contains(t, k) == \E i \in 1..(Len(t) - Len(k) + 1) : SubSeq(t, i, i + Len(k) - 1) = k

tNan == <<"n","a","n">>
tNA == <<"<","N","A",">">>

\* str(x) / Series.astype(str) of one cell: a null becomes the text "nan".
Str(c) == IF IsNull(c) THEN tNan ELSE c.v

---------------------------------------------------------------------------
(* categorize.py *)

\* _contains_any(text, keywords)
_contains_any(text, keywords) ==
    LET t == Upper(Str(text))
    IN  \E i \in 1..Len(keywords) : Contains(t, Upper(keywords[i]))

\* Series.isin(set) of one cell
Isin(c, S) == IsText(c) /\ c.v \in S

\* Series > 0 and Series < 0 of one cell: a comparison with NaN is False
Positive(c) == IsNum(c) /\ NumOf(c) > 0
Negative(c) == IsNum(c) /\ NumOf(c) < 0

Rows(d) == 1..Len(d.rows)

\* One `df.loc[mask, "category"] = label`: the rule, its position among the rules of
\* its kind, the label and the rows of the mask.
Write(rule, idx, label, rws) == [rule |-> rule, idx |-> idx, label |-> label, rows |-> rws]

DefaultWrite(d, cfg) == Write("default", 0, cfg.unknown_category, Rows(d))

InvestmentMask(r, inv) ==
    _contains_any(r["merchant"], inv.keywords) \/ Isin(r["iban"], inv.ibans)

InvestmentWrite(d, cfg) ==
    Write("investments", 0, "Investment",
          {i \in Rows(d) : InvestmentMask(d.rows[i], cfg.investments)})

EmployerMask(r, emp) ==
    LET m0 == Positive(r["amount"])
        m1 == IF emp.keywords # <<>>
              THEN m0 /\ _contains_any(r["merchant"], emp.keywords)
              ELSE m0
    IN  IF emp.ibans # {}
        THEN m1 \/ (Isin(r["iban"], emp.ibans) /\ Positive(r["amount"]))
        ELSE m1

EmployerWrites(d, cfg) ==
    [g \in 1..Len(cfg.employers) |->
        Write("employers", g, "Income:Employer",
              {i \in Rows(d) : EmployerMask(d.rows[i], cfg.employers[g])})]

StudentsMaskNoGuard(r, st) ==
    LET m0 == IsNum(r["amount"]) /\ (NumOf(r["amount"]) % st.multiples_of) = 0
    IN  IF st.ibans # {}
        THEN m0 \/ Isin(r["iban"], st.ibans)
        ELSE m0

StudentsMask(r, st) ==
    LET m0 == Positive(r["amount"]) /\ (NumOf(r["amount"]) % st.multiples_of) = 0
    IN  IF st.ibans # {}
        THEN m0 \/ (Isin(r["iban"], st.ibans) /\ Positive(r["amount"]))
        ELSE m0

StudentsWrite(d, cfg) ==
    Write("students", 0, "Income:Students",
          {i \in Rows(d) : StudentsMask(d.rows[i], cfg.students)})

\* .str.upper().str.contains(kw.upper(), na=False)
CashMask(r, kw) ==
    Positive(r["amount"]) /\ IsText(r["description"])
        /\ Contains(Upper(r["description"].v), Upper(kw))

CashWrites(d, cfg) ==
    IF cfg.cash_keyword # <<>>
    THEN <<Write("cash_students", 0, "Income:Students:Cash",
                 {i \in Rows(d) : CashMask(d.rows[i], cfg.cash_keyword)})>>
    ELSE <<>>

CategoryMask(r, kws) ==
    Negative(r["amount"])
        /\ (_contains_any(r["merchant"], kws) \/ _contains_any(r["description"], kws))

CategoryWrites(d, cfg) ==
    [k \in 1..Len(cfg.categories) |->
        Write("categories", k, cfg.categories[k].label,
              {i \in Rows(d) : CategoryMask(d.rows[i], cfg.categories[k].keywords)})]

CascadeCategoriesFirst(d, cfg) ==
    <<DefaultWrite(d, cfg)>> \o CategoryWrites(d, cfg) \o <<InvestmentWrite(d, cfg)>>
        \o EmployerWrites(d, cfg) \o <<StudentsWrite(d, cfg)>> \o CashWrites(d, cfg)

\* The assignments of categorize_transactions in program order.
Cascade(d, cfg) ==
    <<DefaultWrite(d, cfg)>> \o <<InvestmentWrite(d, cfg)>> \o EmployerWrites(d, cfg)
        \o <<StudentsWrite(d, cfg)>> \o CashWrites(d, cfg) \o CategoryWrites(d, cfg)

\* The category column after the assignments ws: each overwrites the rows of its mask.
RECURSIVE ApplyWrites(_, _)
ApplyWrites(col, ws) ==
    IF ws = <<>> THEN col
    ELSE ApplyWrites([i \in DOMAIN col |-> IF i \in Head(ws).rows THEN Head(ws).label ELSE col[i]],
                     Tail(ws))

WithColumn(cols, c) == IF c \in Range(cols) THEN cols ELSE Append(cols, c)

SetCell(r, c, val) == [k \in (DOMAIN r) \cup {c} |-> IF k = c THEN val ELSE r[k]]

\* The result with its rows in the reverse order
categorize_transactions_reversed(d, cfg) ==
    LET col == ApplyWrites([i \in Rows(d) |-> ""], Cascade(d, cfg))
    IN  Frame(WithColumn(d.columns, "category"),
              [i \in Rows(d) |-> SetCell(d.rows[Len(d.rows) + 1 - i], "category",
                                         col[Len(d.rows) + 1 - i])])

categorize_transactions(d, cfg) ==
    LET col == ApplyWrites([i \in Rows(d) |-> ""], Cascade(d, cfg))
    IN  Frame(WithColumn(d.columns, "category"),
              [i \in Rows(d) |-> SetCell(d.rows[i], "category", col[i])])

---------------------------------------------------------------------------
(* cleaning.py *)

Abs(n) == IF n < 0 THEN -n ELSE n

CleanKeySigned(r) ==
    <<r["date"], NumOf(r["amount"]), Lower(Strip(Str(r["merchant"]))), r["bank"]>>

\* (r["date"], abs(float(r["amount"])), str(r["merchant"]).strip().lower(), r["bank"])
CleanKey(r) ==
    <<r["date"], Abs(NumOf(r["amount"])), Lower(Strip(Str(r["merchant"]))), r["bank"]>>

\* The rows left without the filter of line 8
NotNullRowsAmountOnly(d) == {i \in Rows(d) : ~IsNull(d.rows[i]["amount"])}

\* df[pd.notnull(df["amount"])] then df[pd.notnull(df["date"])]: the rows left
NotNullRows(d) == {i \in Rows(d) : ~IsNull(d.rows[i]["amount"]) /\ ~IsNull(d.rows[i]["date"])}

\* ~key.duplicated(): a row is kept unless an earlier row left has the same key
FirstOfKey(d) ==
    {i \in NotNullRows(d) :
        ~\E j \in NotNullRows(d) : j < i /\ CleanKey(d.rows[j]) = CleanKey(d.rows[i])}

RECURSIVE Ascending(_)
Ascending(S) ==
    IF S = {} THEN <<>>
    ELSE LET m == CHOOSE x \in S : \A y \in S : x <= y
         IN  <<m>> \o Ascending(S \ {m})

\* The index labels of the frame clean_transactions returns, in its row order.
clean_index(d) == Ascending(FirstOfKey(d))

\* df[c].fillna("").astype(str) of one cell
FillStr(c) == IF IsNull(c) THEN Text(<<>>) ELSE Text(Str(c))

CleanText(r) ==
    [c \in DOMAIN r |-> IF c \in {"description", "merchant"} THEN FillStr(r[c]) ELSE r[c]]

clean_transactions(d) ==
    LET idx == clean_index(d)
    IN  Frame(d.columns, [k \in 1..Len(idx) |-> CleanText(d.rows[idx[k]])])

---------------------------------------------------------------------------
(* Inputs *)

MaxRows == 2
MaxGroups == 2

SeqsUpTo(S, n) == UNION {[1..k -> S] : k \in 0..n}

tEUR == <<"E","U","R">>
tRevolut == <<"R","e","v","o","l","u","t">>
tSwedbank == <<"S","w","e","d","b","a","n","k">>
tAcme == <<"A","c","m","e">>
tBrokerShop == <<"B","r","o","k","e","r"," ","S","h","o","p">>
tCashShop == <<"C","a","s","h"," ","s","h","o","p">>
tLT1 == <<"L","T","1">>
kwAcme == <<"a","c","m","e">>
kwBroker == <<"B","R","O","K","E","R">>
kwShop == <<"s","h","o","p">>
kwCash == <<"c","a","s","h">>

\* UNIFIED_COLS
UNIFIED_COLS == <<"date", "amount", "currency", "description", "merchant", "iban",
                  "balance", "type", "bank">>

Unified(date, amount, description, merchant, iban, bnk) ==
    [c \in Range(UNIFIED_COLS) |->
        CASE c = "date" -> date
          [] c = "amount" -> amount
          [] c = "currency" -> Text(tEUR)
          [] c = "description" -> description
          [] c = "merchant" -> merchant
          [] c = "iban" -> iban
          [] c = "balance" -> Null
          [] c = "type" -> Text(<<>>)
          [] c = "bank" -> Text(bnk)]

CatRecords(amounts, texts, ibans) ==
    {Unified(Ts(1, 0), Num(a), Text(t[2]), Text(t[1]), Text(i), tRevolut) :
        a \in amounts, t \in texts, i \in ibans}

CatFrames(records, n) == {Frame(UNIFIED_COLS, rs) : rs \in SeqsUpTo(records, n)}

NoInvestments == [keywords |-> <<>>, ibans |-> {}]
DefaultStudents == [multiples_of |-> 20, ibans |-> {}]

Config(inv, emps, st, cash, cats) ==
    [unknown_category |-> "Miscellaneous", investments |-> inv, employers |-> emps,
     students |-> st, cash_keyword |-> cash, categories |-> cats]

Groceries == [label |-> "Groceries", keywords |-> <<kwShop>>]
Brokerage == [label |-> "Brokerage", keywords |-> <<kwBroker>>]

EmployerGroups == {[keywords |-> k, ibans |-> b] : k \in {<<>>, <<kwAcme>>}, b \in {{}, {tLT1}}}

InvestmentChoices ==
    {NoInvestments, [keywords |-> <<kwBroker>>, ibans |-> {}],
     [keywords |-> <<>>, ibans |-> {tLT1}]}

CategoryChoices ==
    {<<>>, <<Groceries>>, <<Brokerage>>, <<Groceries, Brokerage>>, <<Brokerage, Groceries>>}

\* <<merchant, description>> pairs
CascadeTexts == {<<tAcme, <<>>>>, <<tBrokerShop, <<>>>>, <<tAcme, tCashShop>>}

---------------------------------------------------------------------------
(* The categorization step *)

\* No call of run_monthly_report: the step is taken on its own.
NoRun ==
    /\ month_str = "2025-10"
    /\ config_path = "readable"
    /\ csv_paths_none = FALSE
    /\ artifacts = {}
    /\ error = ""

Idle ==
    /\ out = NoFrame
    /\ writes = <<>>
    /\ index = <<>>
    /\ order = <<>>
    /\ bank = ""
    /\ rev = NoFrame
    /\ swe = NoFrame

\* Configurations and frames that exercise the order of the cascade.
InitCascade ==
    \E inv \in InvestmentChoices, income \in BOOLEAN, cats \in CategoryChoices,
       d \in CatFrames(CatRecords({-40, 41}, CascadeTexts, {<<>>, tLT1}), MaxRows) :
        /\ config = Config(inv,
                           IF income THEN <<[keywords |-> <<kwAcme>>, ibans |-> {tLT1}]>>
                                     ELSE <<>>,
                           DefaultStudents,
                           IF income THEN kwCash ELSE <<>>,
                           cats)
        /\ mdf = d

\* Configurations and frames that exercise the employer groups.
InitEmployers ==
    \E emps \in SeqsUpTo(EmployerGroups, MaxGroups),
       d \in CatFrames(CatRecords({-40, 0, 41}, {<<tAcme, <<>>>>, <<tBrokerShop, <<>>>>},
                                  {<<>>, tLT1}), 1) :
        /\ config = Config(NoInvestments, emps, DefaultStudents, <<>>, <<>>)
        /\ mdf = d

\* Configurations and frames that exercise the students rule.
InitStudents ==
    \E m \in {20, 41}, b \in {{}, {tLT1}}, cash \in {<<>>, kwCash},
       d \in CatFrames(CatRecords({-40, 0, 40, 41}, {<<tAcme, <<>>>>, <<tAcme, tCashShop>>},
                                  {<<>>, tLT1}), MaxRows) :
        /\ config = Config(NoInvestments, <<>>, [multiples_of |-> m, ibans |-> b], cash, <<>>)
        /\ mdf = d

InitCategorize ==
    /\ pc = "categorize"
    /\ (InitCascade \/ InitEmployers \/ InitStudents)
    /\ df = NoFrame
    /\ raw_df = NoFrame
    /\ csv_paths = <<>>
    /\ files = <<>>
    /\ Idle
    /\ NoRun

\* mdf = categorize_transactions(mdf, config), pipeline.py line 51
Categorize ==
    /\ pc = "categorize"
    /\ out' = categorize_transactions(mdf, config)
    /\ writes' = Cascade(mdf, config)
    /\ pc' = "done"
    /\ UNCHANGED <<csv_paths, files, config, raw_df, df, mdf, index, order, bank, rev, swe>>
    /\ UNCHANGED run

NextCategorize == Categorize

SpecCategorize == InitCategorize /\ [][NextCategorize]_vars

---------------------------------------------------------------------------
(* Claims about categorize_transactions *)

Category(i) == out.rows[i]["category"]

\* A keyword list hits a text when the text holds one of the keywords, whatever the case.
KeywordHit(cell, kws) ==
    IsText(cell) /\ \E k \in Range(kws) : Contains(Upper(cell.v), Upper(k))

IbanHit(cell, ibans) == IsText(cell) /\ cell.v \in ibans

Amount(r) == NumOf(r["amount"])

RuleRank(rule) ==
    CASE rule = "default" -> 0
      [] rule = "investments" -> 1
      [] rule = "employers" -> 2
      [] rule = "students" -> 3
      [] rule = "cash_students" -> 4
      [] rule = "categories" -> 5

\* The categories entries, by position in the mapping, whose keywords hit row r.
CategoryHits(r) ==
    {k \in 1..Len(config.categories) :
        KeywordHit(r["merchant"], config.categories[k].keywords)
            \/ KeywordHit(r["description"], config.categories[k].keywords)}

MatchesInvestments(r) ==
    KeywordHit(r["merchant"], config.investments.keywords)
        \/ IbanHit(r["iban"], config.investments.ibans)

\* The last assignment of the run that wrote row i.
LastWrite(i) == writes[Last({w \in 1..Len(writes) : i \in writes[w].rows})]

\* C1: the rules are applied in the order default, investments, employers in list
\* order, students, cash_students, categories in mapping order, and the last rule
\* that matches a record decides its category: a record with amount < 0 that
\* matches a categories entry gets the label of the last entry that matches it, also
\* when it matches the investments rule.
C1_LastMatchingRuleWins ==
    pc = "done" =>
        /\ \A a, b \in 1..Len(writes) :
              a < b => \/ RuleRank(writes[a].rule) < RuleRank(writes[b].rule)
                       \/ /\ writes[a].rule = writes[b].rule
                          /\ writes[a].idx < writes[b].idx
        /\ \A i \in Rows(mdf) :
              /\ Category(i) = LastWrite(i).label
              /\ (Amount(mdf.rows[i]) < 0 /\ CategoryHits(mdf.rows[i]) # {})
                    => Category(i) = config.categories[Last(CategoryHits(mdf.rows[i]))].label

\* A record with amount < 0 that matches the investments rule and two categories
\* entries, and carries the label of the later entry.
C1_Witness ==
    /\ pc = "done"
    /\ \E i \in Rows(mdf) :
          /\ Amount(mdf.rows[i]) < 0
          /\ MatchesInvestments(mdf.rows[i])
          /\ Cardinality(CategoryHits(mdf.rows[i])) = 2
          /\ Category(i) = config.categories[2].label
          /\ Category(i) # "Investment"

EmployerWrite(g) == CHOOSE w \in Range(writes) : w.rule = "employers" /\ w.idx = g

\* C2: an employer group assigns "Income:Employer" to a record if and only if
\* amount > 0 and (the merchant holds one of the group's keywords or the iban is one
\* of the group's ibans), also for a group with no keywords or no ibans.
C2_EmployerRule ==
    pc = "done" =>
        \A g \in 1..Len(config.employers) : \A i \in Rows(mdf) :
            i \in EmployerWrite(g).rows
                <=> /\ Amount(mdf.rows[i]) > 0
                    /\ \/ KeywordHit(mdf.rows[i]["merchant"], config.employers[g].keywords)
                       \/ IbanHit(mdf.rows[i]["iban"], config.employers[g].ibans)

StudentsRows == (CHOOSE w \in Range(writes) : w.rule = "students").rows

StudentsRule(r) ==
    /\ Amount(r) > 0
    /\ \/ Amount(r) % config.students.multiples_of = 0
       \/ IbanHit(r["iban"], config.students.ibans)

\* C3: the students rule assigns "Income:Students" to a record if and only if
\* amount > 0 and (amount is a multiple of multiples_of or the iban is one of the
\* students ibans); a record with amount <= 0 never ends as "Income:Students".
C3_StudentsRule ==
    pc = "done" =>
        \A i \in Rows(mdf) :
            /\ i \in StudentsRows <=> StudentsRule(mdf.rows[i])
            /\ Category(i) = "Income:Students" => StudentsRule(mdf.rows[i])
            /\ Amount(mdf.rows[i]) <= 0 => Category(i) # "Income:Students"

\* A record of amount 41 with a students iban, multiples_of = 20: "Income:Students".
C3_Witness ==
    /\ pc = "done"
    /\ config.students.multiples_of = 20
    /\ \E i \in Rows(mdf) :
          /\ Amount(mdf.rows[i]) = 41
          /\ IbanHit(mdf.rows[i]["iban"], config.students.ibans)
          /\ Category(i) = "Income:Students"

---------------------------------------------------------------------------
(* The cleaning step *)

MaxCleanRows == 2

tAcmeLoose == <<" ","a","c","m","e"," ">>
tShop == <<"S","h","o","p">>

\* <<merchant, description, bank>>
CleanTexts ==
    {<<Text(tAcme), Text(<<>>), tRevolut>>, <<Text(tAcmeLoose), Null, tRevolut>>,
     <<Text(tAcme), Text(<<>>), tSwedbank>>, <<Text(tShop), Text(tCashShop), tRevolut>>}

CleanRecords ==
    {Unified(d, a, t[2], t[1], Text(<<>>), t[3]) :
        d \in {Ts(1, 0), Ts(1, 9), Null}, a \in {Num(30), Num(-30), Null}, t \in CleanTexts}

DefaultConfig == Config(NoInvestments, <<>>, DefaultStudents, <<>>, <<>>)

InitClean ==
    /\ pc = "clean"
    /\ \E rs \in SeqsUpTo(CleanRecords, MaxCleanRows) : df = Frame(UNIFIED_COLS, rs)
    /\ config = DefaultConfig
    /\ mdf = NoFrame
    /\ raw_df = NoFrame
    /\ csv_paths = <<>>
    /\ files = <<>>
    /\ Idle
    /\ NoRun

\* mdf = clean_transactions(mdf, config), pipeline.py line 50
Clean ==
    /\ pc = "clean"
    /\ df.ok
    /\ mdf' = clean_transactions(df)
    /\ index' = clean_index(df)
    /\ pc' = "cleaned"
    /\ UNCHANGED <<csv_paths, files, config, raw_df, df, out, writes, order, bank, rev, swe>>
    /\ UNCHANGED run

NextClean == Clean

SpecClean == InitClean /\ [][NextClean]_vars

\* The duplicate key of the specification: (date, |amount|, merchant lower-cased and
\* trimmed, bank).
DupKey(r) ==
    <<r["date"], IF Amount(r) < 0 THEN 0 - Amount(r) ELSE Amount(r),
      Lower(Strip(r["merchant"].v)), r["bank"]>>

Valid(r) == ~IsNull(r["date"]) /\ ~IsNull(r["amount"])

\* C4: the output of clean_transactions is an order-preserving subsequence of the
\* input, no two output records share the key (date, |amount|, merchant lower-cased
\* and trimmed, bank), and of the input records with non-null date and amount that
\* share a key exactly the first in input order survives.
C4_FirstOfEachKeySurvives ==
    pc = "cleaned" =>
        /\ Len(mdf.rows) = Len(index)
        /\ \A k \in 1..Len(index) :
              /\ index[k] \in Rows(df)
              /\ k > 1 => index[k - 1] < index[k]
              /\ \A c \in Range(UNIFIED_COLS) \ {"description", "merchant"} :
                    mdf.rows[k][c] = df.rows[index[k]][c]
              /\ \A c \in {"description", "merchant"} :
                    IsText(df.rows[index[k]][c]) => mdf.rows[k][c] = df.rows[index[k]][c]
        /\ \A a, b \in Rows(mdf) : a # b => DupKey(mdf.rows[a]) # DupKey(mdf.rows[b])
        /\ \A i \in Rows(df) :
              Valid(df.rows[i]) =>
                  (i \in Range(index)
                      <=> ~\E j \in 1..(i - 1) :
                              Valid(df.rows[j]) /\ DupKey(df.rows[j]) = DupKey(df.rows[i]))

\* A +30 and a -30 record of the same date, merchant (up to case and blanks) and
\* bank: the first survives, the second is dropped.
C4_Witness ==
    /\ pc = "cleaned"
    /\ \E i, j \in Rows(df) :
          /\ i < j
          /\ Valid(df.rows[i]) /\ Valid(df.rows[j])
          /\ Amount(df.rows[i]) = 30 /\ Amount(df.rows[j]) = -30
          /\ df.rows[i]["merchant"] # df.rows[j]["merchant"]
          /\ DupKey(df.rows[i]) = DupKey(df.rows[j])
          /\ i \in Range(index) /\ j \notin Range(index)

---------------------------------------------------------------------------
(* io_normalize.py: cells *)

\* A text cell that spells day d and time of day h, e.g. "2025-10-0d hh:00:00".
DateText(d, h) == [t |-> "datetext", v |-> <<d, h>>]

\* pd.to_datetime(x, errors="coerce") of one cell: the timestamp a text spells,
\* time of day included; a null, or a text that spells no date, becomes NaT.
to_datetime(c) ==
    CASE c.t = "ts" -> c
      [] c.t = "datetext" -> Ts(c.v[1], c.v[2])
      [] OTHER -> Null

Digits == <<"0","1","2","3","4","5","6","7","8","9">>
IsDigit(ch) == \E i \in 1..10 : Digits[i] = ch
DigitValue(ch) == (CHOOSE i \in 1..10 : Digits[i] = ch) - 1

RECURSIVE DigitsValue(_, _)
DigitsValue(s, acc) ==
    IF s = <<>> THEN acc ELSE DigitsValue(Tail(s), 10 * acc + DigitValue(Head(s)))

IndexOf(s, ch) == IF ch \in Range(s) THEN CHOOSE i \in 1..Len(s) : s[i] = ch /\ \A j \in 1..(i - 1) : s[j] # ch
                  ELSE 0

\* The number a text spells: an optional sign, digits, and an optional fraction of
\* zeros (the amounts of the model are whole numbers); any other text spells none.
ParseNumber(s0) ==
    LET s == Strip(s0)
        neg == s # <<>> /\ Head(s) = "-"
        body == IF neg THEN Tail(s) ELSE s
        dot == IndexOf(body, ".")
        whole == IF dot = 0 THEN body ELSE SubSeq(body, 1, dot - 1)
        frac == IF dot = 0 THEN <<>> ELSE SubSeq(body, dot + 1, Len(body))
    IN  IF whole # <<>> /\ (\A i \in 1..Len(whole) : IsDigit(whole[i]))
            /\ (\A i \in 1..Len(frac) : frac[i] = "0")
        THEN Num(IF neg THEN 0 - DigitsValue(whole, 0) ELSE DigitsValue(whole, 0))
        ELSE Null

\* pd.to_numeric(x, errors="coerce") of one cell
to_numeric(c) ==
    CASE c.t = "num" -> c
      [] c.t = "text" -> ParseNumber(c.v)
      [] OTHER -> Null

\* Series.astype(str) of one cell: NaN becomes "nan", pd.NA becomes "<NA>".
astype_str(c) ==
    CASE c.t = "null" -> Text(tNan)
      [] c.t = "na" -> Text(tNA)
      [] OTHER -> c

NA == [t |-> "na", v |-> <<>>]

\* Series.notna() of one cell
notna(c) == c.t \notin {"null", "na"}

---------------------------------------------------------------------------
(* io_normalize.py: column names *)

\* <<column name, name.lower(), name.lower().strip()>> of the names in use.
NameTable ==
    {<<"Type", "type", "type">>,
     <<"Started Date", "started date", "started date">>,
     <<"Completed Date", "completed date", "completed date">>,
     <<"Description", "description", "description">>,
     <<"Amount", "amount", "amount">>,
     <<"Currency", "currency", "currency">>,
     <<"Balance", "balance", "balance">>,
     <<"Data", "data", "data">>,
     <<"Suma", "suma", "suma">>,
     <<"Valiuta", "valiuta", "valiuta">>,
     <<"D/K", "d/k", "d/k">>,
     <<"Paaiskinimai", "paaiskinimai", "paaiskinimai">>,
     <<"Gavejas", "gavejas", "gavejas">>,
     <<"Likutis", "likutis", "likutis">>,
     <<"Saskaitos Nr.", "saskaitos nr.", "saskaitos nr.">>,
     <<"_source_path", "_source_path", "_source_path">>}

NameLower(c) == (CHOOSE e \in NameTable : e[1] = c)[2]
NameLowerStrip(c) == (CHOOSE e \in NameTable : e[1] = c)[3]

\* A frame after DataFrame.rename: names[i] is the new name of column columns[i].
\* The cells of the columns called n, one per column of that name.
Named(names, n) == {i \in 1..Len(names) : names[i] = n}
Has(names, n) == Named(names, n) # {}
Twice(names, n) == Cardinality(Named(names, n)) > 1

\* df.get(n, default) of one row, for a name carried by at most one column
Get(raw, names, r, n, default) ==
    IF Has(names, n) THEN r[raw.columns[CHOOSE i \in Named(names, n) : TRUE]] ELSE default

---------------------------------------------------------------------------
(* io_normalize.py: the two bank formats *)

\* The row of _ensure_schema's result for the row r of the partially normalized frame.
ensure_row(r, bank_name) ==
    [c \in Range(UNIFIED_COLS) |->
        CASE c = "date" -> to_datetime(r.date)
          [] c = "amount" -> to_numeric(r.amount)
          [] c = "currency" -> astype_str(r.currency)
          [] c = "description" -> astype_str(r.description)
          [] c = "merchant" -> astype_str(r.merchant)
          [] c = "iban" -> astype_str(r.iban)
          [] c = "balance" -> to_numeric(r.balance)
          [] c = "type" -> astype_str(r.type)
          [] c = "bank" -> Text(bank_name)]

_ensure_schema(rws, bank_name) ==
    Frame(UNIFIED_COLS, [i \in 1..Len(rws) |-> ensure_row(rws[i], bank_name)])

\* cols = {c: c.lower().strip() for c in raw.columns}
RevolutNames(raw) == [i \in 1..Len(raw.columns) |-> NameLowerStrip(raw.columns[i])]

\* Date: prefer completed date, fall back to started date
RevolutDate(names) ==
    IF Has(names, "completed date") THEN "completed date" ELSE "started date"

\* Assigning df.get(n), a DataFrame when two columns are called n, to one column
\* of df_norm raises ValueError.
RevolutRaises(names) ==
    \E n \in {RevolutDate(names), "amount", "currency", "description", "balance", "type"} :
        Twice(names, n)

RevolutRow(raw, names, r) ==
    [date |-> Get(raw, names, r, RevolutDate(names), Null),
     amount |-> Get(raw, names, r, "amount", Null),
     currency |-> Get(raw, names, r, "currency", Text(tEUR)),
     description |-> Get(raw, names, r, "description", Text(<<>>)),
     merchant |-> Get(raw, names, r, "description", Text(<<>>)),
     iban |-> Text(<<>>),
     balance |-> Get(raw, names, r, "balance", Null),
     type |-> Get(raw, names, r, "type", Text(<<>>))]

_normalize_revolut(raw) ==
    LET names == RevolutNames(raw)
    IN  IF RevolutRaises(names) THEN Raised
        ELSE _ensure_schema([i \in 1..Len(raw.rows) |-> RevolutRow(raw, names, raw.rows[i])],
                            tRevolut)

\* cmap of _normalize_swedbank: the new name of column c; a column it does not
\* map keeps its name.  The names are written in ASCII: of the two spellings the
\* code accepts for a Lithuanian name, the one without diacritics.
SwedbankName(c) ==
    LET lc == NameLowerStrip(c)
    IN  CASE lc = "data" -> "date"
          [] lc = "suma" -> "amount"
          [] lc = "valiuta" -> "currency"
          [] lc = "paaiskinimai" -> "description"
          [] lc = "gavejas" -> "merchant"
          [] lc \in {"d/k", "dk"} -> "dk"
          [] lc \in {"likutis", "balance"} -> "balance"
          [] lc \in {"saskaitos nr.", "account number"} -> "iban"
          [] OTHER -> c

SwedbankNames(raw) == [i \in 1..Len(raw.columns) |-> SwedbankName(raw.columns[i])]

RECURSIVE ReplaceChar(_, _, _)
ReplaceChar(s, a, b) ==
    IF s = <<>> THEN <<>>
    ELSE (IF Head(s) = a THEN b ELSE <<Head(s)>>) \o ReplaceChar(Tail(s), a, b)

\* astype(str), drop the no-break spaces, comma to point, pd.to_numeric
SwedbankAmount(c) ==
    CASE c.t = "num" -> c
      [] c.t = "text" -> ParseNumber(ReplaceChar(ReplaceChar(c.v, "NBSP", <<>>), ",", <<".">>))
      [] OTHER -> Null

tD == <<"D">>
tDEBETAS == <<"D","E","B","E","T","A","S">>
tDEBIT == <<"D","E","B","I","T">>

\* The multiplier without the .str.strip() of line 115
SwedbankSignNoStrip(c) ==
    IF Upper(Str(astype_str(c))) \in {tD, tDEBETAS, tDEBIT} THEN 0 - 1 ELSE 1

\* The multiplier of a D/K marker: astype(str), upper, strip, map, fillna(1)
SwedbankSign(c) ==
    IF Strip(Upper(Str(astype_str(c)))) \in {tD, tDEBETAS, tDEBIT} THEN 0 - 1 ELSE 1

Times(c, k) == IF IsNum(c) THEN Num(NumOf(c) * k) ELSE c

SwedbankSignedAmount(raw, names, r) ==
    LET parsed == IF Has(names, "amount")
                  THEN SwedbankAmount(Get(raw, names, r, "amount", Null))
                  ELSE Null
    IN  IF Has(names, "dk") /\ Has(names, "amount")
        THEN Times(parsed, SwedbankSign(Get(raw, names, r, "dk", Null)))
        ELSE parsed

\* crude type: credit if amount > 0, else debit; pd.NA where neither holds
SwedbankType(a) ==
    IF Positive(a) THEN Text(<<"c","r","e","d","i","t">>)
    ELSE IF Negative(a) THEN Text(<<"d","e","b","i","t">>)
    ELSE NA

\* df["amount"] and df["dk"] are DataFrames, without .str, when two columns carry
\* the name; assigning df.get(n) of two columns to one column raises ValueError.
SwedbankRaises(names) ==
    \/ Twice(names, "amount")
    \/ Has(names, "amount") /\ Twice(names, "dk")
    \/ \E n \in {"date", "currency", "description", "merchant", "iban", "balance"} :
          Twice(names, n)

SwedbankRow(raw, names, r) ==
    LET a == SwedbankSignedAmount(raw, names, r)
        description == Get(raw, names, r, "description", Text(<<>>))
    IN  [date |-> Get(raw, names, r, "date", Null),
         amount |-> a,
         currency |-> Get(raw, names, r, "currency", Text(tEUR)),
         description |-> description,
         merchant |-> Get(raw, names, r, "merchant", description),
         iban |-> Get(raw, names, r, "iban", Text(<<>>)),
         balance |-> Get(raw, names, r, "balance", Null),
         type |-> SwedbankType(a)]

_normalize_swedbank(raw) ==
    LET names == SwedbankNames(raw)
    IN  IF SwedbankRaises(names) THEN Raised
        ELSE _ensure_schema([i \in 1..Len(raw.rows) |-> SwedbankRow(raw, names, raw.rows[i])],
                            tSwedbank)

---------------------------------------------------------------------------
(* io_normalize.py: bank detector and dispatcher *)

\* lower_map.get(a): the column whose lower-cased name is a (the last such), or none
ColumnsOf(part, a) == {i \in 1..Len(part.columns) : NameLower(part.columns[i]) = a}

\* part[col].notna().sum()
NotNaCount(part, i) == Cardinality({k \in Rows(part) : notna(part.rows[k][part.columns[i]])})

\* The non-null count of the first alias of the group that is a column, 0 if none is.
RECURSIVE GroupScore(_, _)
GroupScore(part, aliases) ==
    IF aliases = <<>> THEN 0
    ELSE IF ColumnsOf(part, Head(aliases)) # {}
         THEN NotNaCount(part, Last(ColumnsOf(part, Head(aliases))))
         ELSE GroupScore(part, Tail(aliases))

RECURSIVE _score(_, _)
_score(part, alias_groups) ==
    IF alias_groups = <<>> THEN 0
    ELSE GroupScore(part, Head(alias_groups)) + _score(part, Tail(alias_groups))

revolut_aliases ==
    <<<<"completed date", "started date">>, <<"type">>, <<"description">>, <<"amount">>,
      <<"currency">>>>

\* (the last group has one spelling here, see SwedbankName)
swedbank_aliases ==
    <<<<"data", "date">>, <<"suma">>, <<"valiuta", "currency">>, <<"d/k", "dk">>,
      <<"paaiskinimai">>>>

_decide_bank_strict(part) ==
    IF _score(part, revolut_aliases) > _score(part, swedbank_aliases)
    THEN "revolut" ELSE "swedbank"

_decide_bank(part) ==
    IF _score(part, revolut_aliases) >= _score(part, swedbank_aliases)
    THEN "revolut" ELSE "swedbank"

NormalizePart(part) ==
    IF _decide_bank(part) = "revolut" THEN _normalize_revolut(part)
    ELSE _normalize_swedbank(part)

\* The paths in use, in the ascending order of their strings.
pA == <<"a",".","c","s","v">>
pB == <<"b",".","c","s","v">>
pC == <<"c",".","c","s","v">>
pD == <<"d",".","c","s","v">>
PathOrder == <<pA, pB, pC, pD>>
SourcePath(raw, k) == raw.rows[k]["_source_path"].v

\* The groups of raw_all.groupby("_source_path"): one per path, in ascending order
\* of the paths, each the index labels of its rows in the frame's order.
RECURSIVE GroupsFrom(_, _)
GroupsFrom(raw, rank) ==
    IF rank > Len(PathOrder) THEN <<>>
    ELSE LET members == {k \in Rows(raw) : SourcePath(raw, k) = PathOrder[rank]}
         IN  (IF members = {} THEN <<>> ELSE <<Ascending(members)>>)
                 \o GroupsFrom(raw, rank + 1)

GroupBySourcePath(raw) == GroupsFrom(raw, 1)

\* The chunks normalize_any_bank normalizes, in its order, as index labels of raw_all.
Chunks(raw) ==
    IF "_source_path" \in Range(raw.columns) THEN GroupBySourcePath(raw)
    ELSE <<Ascending(Rows(raw))>>

Part(raw, labels) == Frame(raw.columns, [k \in 1..Len(labels) |-> raw.rows[labels[k]]])

RECURSIVE Flatten(_)
Flatten(ss) == IF ss = <<>> THEN <<>> ELSE Head(ss) \o Flatten(Tail(ss))

\* DataFrame.empty
Empty(raw) == Len(raw.rows) = 0 \/ Len(raw.columns) = 0

\* The index labels of raw_all in the order of the rows of normalize_any_bank's result.
normalize_order(raw) == IF Empty(raw) THEN <<>> ELSE Flatten(Chunks(raw))

normalize_any_bank(raw) ==
    IF Empty(raw) THEN Frame(UNIFIED_COLS, <<>>)
    ELSE LET frames == [g \in 1..Len(Chunks(raw)) |-> NormalizePart(Part(raw, Chunks(raw)[g]))]
         IN  IF \E g \in 1..Len(frames) : ~frames[g].ok THEN Raised
             ELSE Frame(UNIFIED_COLS, Flatten([g \in 1..Len(frames) |-> frames[g].rows]))

---------------------------------------------------------------------------
(* datasource/csv_source.py *)

\* df["_source_path"] = str(p)
Tagged(frame, p) ==
    Frame(WithColumn(frame.columns, "_source_path"),
          [k \in Rows(frame) |-> SetCell(frame.rows[k], "_source_path", Text(p))])

\* The columns of pd.concat(frames): the union, in the order of first appearance.
RECURSIVE UnionColumns(_, _)
UnionColumns(frames, acc) ==
    IF frames = <<>> THEN acc
    ELSE UnionColumns(Tail(frames),
                      acc \o SelectSeq(Head(frames).columns, LAMBDA c : c \notin Range(acc)))

Widen(r, cols) == [c \in Range(cols) |-> IF c \in DOMAIN r THEN r[c] ELSE Null]

\* pd.concat(frames, ignore_index=True): a cell of a column its frame lacks is NaN.
Concat(frames) ==
    LET cols == UnionColumns(frames, <<>>)
    IN  Frame(cols, Flatten([f \in 1..Len(frames) |->
                  [k \in Rows(frames[f]) |-> Widen(frames[f].rows[k], cols)]]))

\* CsvSource(paths).fetch(), fs[p] being what _smart_read_csv(p) returns
fetch(paths, fs) ==
    IF paths = <<>> THEN Frame(<<>>, <<>>)
    ELSE Concat([i \in 1..Len(paths) |-> Tagged(fs[paths[i]], paths[i])])

---------------------------------------------------------------------------
(* Raw chunks *)

MaxChunkRows == 2

tGarbage == <<"n","/","a">>

\* The cell of a column in a row of kind "a" (every cell filled) or "b" (cells
\* empty or unparseable, a later time of the same day).
RawCell(kind, c) ==
    IF kind = "a"
    THEN CASE c = "Type" -> Text(tShop)
           [] c = "Started Date" -> DateText(3, 8)
           [] c = "Completed Date" -> DateText(3, 9)
           [] c = "Description" -> Text(tAcme)
           [] c = "Amount" -> Num(30)
           [] c = "Currency" -> Text(tEUR)
           [] c = "Balance" -> Num(100)
           [] c = "Data" -> DateText(3, 0)
           [] c = "Suma" -> Text(<<"3","0",",","0","0">>)
           [] c = "Valiuta" -> Text(tEUR)
           [] c = "D/K" -> Text(<<"K">>)
           [] c = "Paaiskinimai" -> Text(tCashShop)
           [] c = "Gavejas" -> Text(tAcme)
           [] c = "Likutis" -> Num(100)
           [] c = "Saskaitos Nr." -> Text(tLT1)
    ELSE CASE c = "Type" -> Null
           [] c = "Started Date" -> Text(tGarbage)
           [] c = "Completed Date" -> DateText(3, 18)
           [] c = "Description" -> Null
           [] c = "Amount" -> Num(0 - 30)
           [] c = "Currency" -> Null
           [] c = "Balance" -> Null
           [] c = "Data" -> Null
           [] c = "Suma" -> Num(30)
           [] c = "Valiuta" -> Null
           [] c = "D/K" -> Text(<<"d"," ">>)
           [] c = "Paaiskinimai" -> Null
           [] c = "Gavejas" -> Null
           [] c = "Likutis" -> Null
           [] c = "Saskaitos Nr." -> Null

RowKinds == {"a", "b"}

RawFrame(cols, kinds) ==
    Frame(cols, [k \in 1..Len(kinds) |-> [c \in Range(cols) |-> RawCell(kinds[k], c)]])

RevolutColumns == <<"Type", "Started Date", "Completed Date", "Description", "Amount",
                    "Currency", "Balance">>
SwedbankColumns == <<"Saskaitos Nr.", "Data", "Gavejas", "Paaiskinimai", "Suma", "Valiuta",
                     "D/K", "Likutis", "Balance">>
MixedColumns == <<"Completed Date", "Description", "Amount", "Currency", "Data", "Suma", "D/K">>

Pick(cols, S) == SelectSeq(cols, LAMBDA c : c \in S)

\* A chunk holds any subset of the columns of a Revolut export, of a Swedbank
\* export, or of a mix of both.
ChunkColumns ==
    {Pick(RevolutColumns, S) : S \in SUBSET Range(RevolutColumns)}
        \cup {Pick(SwedbankColumns, S) : S \in SUBSET Range(SwedbankColumns)}
        \cup {Pick(MixedColumns, S) : S \in SUBSET Range(MixedColumns)}

---------------------------------------------------------------------------
(* Normalization of one chunk *)

InitNormalize ==
    /\ pc = "fetched"
    /\ \E cols \in ChunkColumns, kinds \in SeqsUpTo(RowKinds, MaxChunkRows) :
          raw_df = RawFrame(cols, kinds)
    /\ config = DefaultConfig
    /\ df = NoFrame
    /\ mdf = NoFrame
    /\ csv_paths = <<>>
    /\ files = <<>>
    /\ Idle
    /\ NoRun

\* bank = _decide_bank(raw_all)
DecideBank ==
    /\ pc = "fetched"
    /\ bank' = _decide_bank(raw_df)
    /\ pc' = "decided"
    /\ UNCHANGED <<csv_paths, files, config, raw_df, df, mdf, out, writes, index, order, rev, swe>>
    /\ UNCHANGED run

\* _normalize_revolut(raw_all)
NormalizeRevolut ==
    /\ pc = "fetched"
    /\ rev' = _normalize_revolut(raw_df)
    /\ pc' = "revolut"
    /\ UNCHANGED <<csv_paths, files, config, raw_df, df, mdf, out, writes, index, order, bank, swe>>
    /\ UNCHANGED run

\* _normalize_swedbank(raw_all)
NormalizeSwedbank ==
    /\ pc = "fetched"
    /\ swe' = _normalize_swedbank(raw_df)
    /\ pc' = "swedbank"
    /\ UNCHANGED <<csv_paths, files, config, raw_df, df, mdf, out, writes, index, order, bank, rev>>
    /\ UNCHANGED run

\* df = normalize_any_bank(raw_df), pipeline.py line 46; a raise ends the run
NormalizeAnyBank ==
    /\ pc = "fetched"
    /\ df' = normalize_any_bank(raw_df)
    /\ order' = IF df'.ok THEN normalize_order(raw_df) ELSE <<>>
    /\ pc' = IF df'.ok THEN "clean" ELSE "failed"
    /\ UNCHANGED <<csv_paths, files, config, raw_df, mdf, out, writes, index, bank, rev, swe>>
    /\ UNCHANGED run

NextNormalize == DecideBank \/ NormalizeRevolut \/ NormalizeSwedbank \/ NormalizeAnyBank \/ Clean

SpecNormalize == InitNormalize /\ [][NextNormalize]_vars

---------------------------------------------------------------------------
(* Claims about the normalization of one chunk *)

\* The columns of the chunk whose name is the alias a, whatever the case.
AliasColumns(a) == {c \in Range(raw_df.columns) : NameLower(c) = a}

NonNull(c) == Cardinality({k \in Rows(raw_df) : raw_df.rows[k][c].t \notin {"null", "na"}})

\* The non-null count of the first alias of the group present as a column, or 0.
AliasGroupScore(g) ==
    LET present == {j \in 1..Len(g) : AliasColumns(g[j]) # {}}
    IN  IF present = {} THEN 0
        ELSE NonNull(CHOOSE c \in AliasColumns(g[CHOOSE j \in present : \A i \in present : j <= i]) : TRUE)

RECURSIVE SumOf(_)
SumOf(ns) == IF ns = <<>> THEN 0 ELSE Head(ns) + SumOf(Tail(ns))

BankScore(groups) == SumOf([g \in 1..Len(groups) |-> AliasGroupScore(groups[g])])

\* C7: _decide_bank returns the bank whose score (the sum, over its alias groups, of
\* the non-null count of the first alias present as a column) is strictly higher,
\* and Revolut on a tie, also when no bank-identifying column is present.
C7_DecideBank ==
    pc = "decided" =>
        bank = IF BankScore(swedbank_aliases) > BankScore(revolut_aliases)
               THEN "swedbank" ELSE "revolut"

\* A chunk with rows and no bank-identifying column: both scores 0, Revolut.
C7_Witness ==
    /\ pc = "decided"
    /\ Len(raw_df.rows) > 0
    /\ raw_df.columns # <<>>
    /\ \A g \in Range(revolut_aliases) \cup Range(swedbank_aliases) :
          \A a \in Range(g) : AliasColumns(a) = {}
    /\ bank = "revolut"

\* A frame of the unified schema with one record per row of the chunk, tagged tag.
UnifiedResult(f, tag) ==
    /\ f.ok
    /\ f.columns = UNIFIED_COLS
    /\ Len(f.rows) = Len(raw_df.rows)
    /\ \A k \in Rows(f) :
          /\ DOMAIN f.rows[k] = Range(UNIFIED_COLS)
          /\ f.rows[k]["bank"] = Text(tag)

\* C8: whichever source columns the chunk holds, _normalize_revolut and
\* _normalize_swedbank return, without raising, a frame with exactly the unified
\* fields in order, one record per input row, tagged with the bank; and
\* normalize_any_bank of an empty input returns an empty frame of that schema.
C8_NormalizationTotal ==
    /\ pc = "revolut" => UnifiedResult(rev, tRevolut)
    /\ pc = "swedbank" => UnifiedResult(swe, tSwedbank)
    /\ (pc \in {"clean", "failed"} /\ Empty(raw_df))
          => (df.ok /\ df.columns = UNIFIED_COLS /\ df.rows = <<>>)

\* The source cell of the description of the normalized row k: the Description
\* column of a Revolut chunk, the Paaiskinimai column of a Swedbank chunk.
SourceCell(k, revolutColumn, swedbankColumn) ==
    LET c == IF df.rows[k]["bank"] = Text(tRevolut) THEN revolutColumn ELSE swedbankColumn
    IN  IF c \in Range(raw_df.columns) THEN raw_df.rows[order[k]][c] ELSE Null

\* C9: after normalization and cleaning, description and merchant are non-null
\* strings, and a record whose source row has no description value has the empty
\* string as description, not a null and not a text standing for one.
C9_DescriptionNeverNull ==
    pc = "cleaned" =>
        \A k \in Rows(mdf) :
            /\ IsText(mdf.rows[k]["description"])
            /\ IsText(mdf.rows[k]["merchant"])
            /\ IsNull(SourceCell(index[k], "Description", "Paaiskinimai"))
                  => mdf.rows[k]["description"] = Text(<<>>)

RevolutDateColumn ==
    IF "Completed Date" \in Range(raw_df.columns) THEN "Completed Date" ELSE "Started Date"

\* C10: the date of a normalized record is the calendar day its source spells, the
\* time of day discarded, so that rows of the same day get equal dates; a source
\* that spells no date gives a null date.
C10_DateWithoutTime ==
    pc = "clean" =>
        \A k \in Rows(df) :
            LET src == SourceCell(k, RevolutDateColumn, "Data")
            IN  IF src.t = "datetext" THEN df.rows[k]["date"] = Ts(src.v[1], 0)
                ELSE IsNull(df.rows[k]["date"])

---------------------------------------------------------------------------
(* A batch of files: fetch, then normalize_any_bank *)

MaxFiles == 2

RevolutStartedOnly == <<"Started Date", "Description", "Amount">>
SwedbankPlain == <<"Data", "Gavejas", "Paaiskinimai", "Suma", "Valiuta", "D/K">>
SwedbankWithBalance == <<"Data", "Gavejas", "Suma", "D/K", "Likutis">>

\* What _smart_read_csv returns for a file: one of four layouts, one or two rows.
FileChoices ==
    {RawFrame(cols, kinds) :
        cols \in {RevolutColumns, RevolutStartedOnly, SwedbankPlain, SwedbankWithBalance},
        kinds \in {<<"a">>, <<"a", "b">>}}

PathChoices == {PathOrder[i] : i \in 1..(MaxFiles + 1)}

InitBatch ==
    /\ pc = "start"
    /\ \E n \in 1..MaxFiles : csv_paths \in [1..n -> PathChoices]
    /\ files \in [Range(csv_paths) -> FileChoices]
    /\ config = DefaultConfig
    /\ raw_df = NoFrame
    /\ df = NoFrame
    /\ mdf = NoFrame
    /\ Idle
    /\ NoRun

\* raw_df = CsvSource(csv_paths).fetch(), pipeline.py lines 43-44
Fetch ==
    /\ pc = "start"
    /\ raw_df' = fetch(csv_paths, files)
    /\ pc' = "fetched"
    /\ UNCHANGED <<csv_paths, files, config, df, mdf, out, writes, index, order, bank, rev, swe>>
    /\ UNCHANGED run

NextBatch == Fetch \/ NormalizeAnyBank

SpecBatch == InitBatch /\ [][NextBatch]_vars

\* C5: the output of normalize_any_bank on a fetched batch is the concatenation of
\* the per-file results, the files in the order the paths were given and the rows
\* of a file in the file's order: the k-th record comes from the k-th fetched row.
C5_FilesInInputOrder ==
    pc = "clean" => \A k \in 1..Len(order) : order[k] = k

Distinct(ps) == \A i, j \in 1..Len(ps) : i # j => ps[i] # ps[j]

\* The records of the batch's result that come from the file at path p, in order.
RecordsOf(p) ==
    LET ks == {k \in Rows(df) : SourcePath(raw_df, order[k]) = p}
        idx == Ascending(ks)
    IN  [i \in 1..Len(idx) |-> df.rows[idx[i]]]

Alone(p) == normalize_any_bank(fetch(<<p>>, files))

\* C6: the records normalize_any_bank produces for a file's rows in a batch equal
\* the records it produces when the file is fetched and normalized alone.
C6_FilesIndependent ==
    (pc \in {"clean", "failed"} /\ Distinct(csv_paths)) =>
        \A p \in Range(csv_paths) :
            Alone(p).ok => (df.ok /\ RecordsOf(p) = Alone(p).rows)

---------------------------------------------------------------------------
(* _normalize_swedbank on chunks that vary the amount and the D/K marker *)

MaxSignRows == 2

\* The Suma cells of the chunks: "30,00", -30 and a text that spells no number.
SumaChoices == {Text(<<"3","0",",","0","0">>), Num(0 - 30), Text(tGarbage)}

\* The D/K cells of the chunks: the six markers of the map in mixed case and with
\* blanks around them, an unknown marker, an empty one and a missing one.
MarkerChoices ==
    {Text(<<"D">>), Text(<<"d","e","b","e","t","a","s">>), Text(<<" ","D","e","b","i","t"," ">>),
     Text(<<"K">>), Text(<<"k","r","e","d","i","t","a","s">>), Text(<<"C","R","E","D","I","T"," ">>),
     Text(<<"X">>), Text(<<>>), Null}

SignRows == {[s \in {"Suma", "D/K"} |-> IF s = "Suma" THEN a ELSE m] :
                a \in SumaChoices, m \in MarkerChoices}

SignColumns == {<<"Suma", "D/K">>, <<"Suma">>, <<"D/K">>, <<>>}

SignFrame(cols, rws) ==
    Frame(cols, [k \in 1..Len(rws) |-> [c \in Range(cols) |-> rws[k][c]]])

InitSign ==
    /\ pc = "fetched"
    /\ \E cols \in SignColumns, rws \in SeqsUpTo(SignRows, MaxSignRows) :
          raw_df = SignFrame(cols, rws)
    /\ config = DefaultConfig
    /\ df = NoFrame
    /\ mdf = NoFrame
    /\ csv_paths = <<>>
    /\ files = <<>>
    /\ Idle
    /\ NoRun

NextSign == NormalizeSwedbank

SpecSign == InitSign /\ [][NextSign]_vars

\* The amount the Suma cell spells.
ParsedSuma(c) ==
    CASE c = Text(<<"3","0",",","0","0">>) -> Num(30)
      [] c = Num(0 - 30) -> Num(0 - 30)
      [] OTHER -> Null

\* The multiplier the claim gives to a marker.
MarkerMultiplier(m) ==
    IF m \in {Text(<<"D">>), Text(<<"d","e","b","e","t","a","s">>),
              Text(<<" ","D","e","b","i","t"," ">>)}
    THEN 0 - 1 ELSE 1

HasColumn(c) == c \in Range(raw_df.columns)

ExpectedAmount(r) ==
    LET parsed == IF HasColumn("Suma") THEN ParsedSuma(r["Suma"]) ELSE Null
    IN  IF HasColumn("D/K") /\ IsNum(parsed)
        THEN Num(NumOf(parsed) * MarkerMultiplier(r["D/K"]))
        ELSE parsed

\* C11: _normalize_swedbank returns without raising, and each record's amount is
\* the parsed amount times the multiplier of its marker: -1 for D, DEBETAS, DEBIT
\* in any case and with blanks around, +1 for every other marker, a missing one
\* included; without a marker column the amount is the parsed amount.
C11_SwedbankSign ==
    pc = "swedbank" =>
        /\ swe.ok
        /\ Len(swe.rows) = Len(raw_df.rows)
        /\ \A k \in Rows(swe) : swe.rows[k]["amount"] = ExpectedAmount(raw_df.rows[k])

\* A chunk in which a debit marker written " Debit " flips a parsed "30,00" and
\* a missing marker leaves the amount of another row as parsed.
C11_Witness ==
    /\ pc = "swedbank"
    /\ swe.ok
    /\ HasColumn("Suma") /\ HasColumn("D/K")
    /\ \E i, j \in Rows(swe) :
          /\ raw_df.rows[i]["D/K"] = Text(<<" ","D","e","b","i","t"," ">>)
          /\ raw_df.rows[i]["Suma"] = Text(<<"3","0",",","0","0">>)
          /\ swe.rows[i]["amount"] = Num(0 - 30)
          /\ raw_df.rows[j]["D/K"] = Null
          /\ swe.rows[j]["amount"] = Num(0 - 30)

---------------------------------------------------------------------------
(* Rows with an unparseable date or amount: normalize_any_bank, then
   clean_transactions *)

MaxParseRows == 3

\* The cell of a column in a row of kind "a" (see RawCell), "e" (a valid row of
\* the next day), "d" (the date is no date) or "n" (the amount is no number).
ParseCell(kind, c) ==
    CASE kind = "d" /\ c \in {"Started Date", "Completed Date", "Data"} -> Text(tGarbage)
      [] kind = "n" /\ c \in {"Amount", "Suma"} -> Text(tGarbage)
      [] kind = "e" /\ c \in {"Started Date", "Completed Date", "Data"} -> DateText(4, 0)
      [] OTHER -> RawCell("a", c)

ParseKinds == {"a", "e", "d", "n"}

ParseFrame(cols, kinds) ==
    Frame(cols, [k \in 1..Len(kinds) |-> [c \in Range(cols) |-> ParseCell(kinds[k], c)]])

\* Exports of one bank, each with a date and an amount column, and a chunk
\* that carries the columns of both.
ParseColumns ==
    {<<"Completed Date", "Description", "Amount">>,
     <<"Type", "Started Date", "Description", "Amount", "Currency">>,
     <<"Data", "Gavejas", "Suma", "D/K">>,
     <<"Data", "Paaiskinimai", "Suma", "Valiuta">>,
     <<"Completed Date", "Amount", "Data", "Suma", "D/K">>}

InitParse ==
    /\ pc = "fetched"
    /\ \E cols \in ParseColumns, kinds \in SeqsUpTo(ParseKinds, MaxParseRows) :
          raw_df = ParseFrame(cols, kinds)
    /\ config = DefaultConfig
    /\ df = NoFrame
    /\ mdf = NoFrame
    /\ csv_paths = <<>>
    /\ files = <<>>
    /\ Idle
    /\ NoRun

NextParse == NormalizeAnyBank \/ Clean

SpecParse == InitParse /\ [][NextParse]_vars

BadDate(r) ==
    \E c \in Range(raw_df.columns) \cap {"Started Date", "Completed Date", "Data"} :
        r[c] = Text(tGarbage)

BadAmount(r) ==
    \E c \in Range(raw_df.columns) \cap {"Amount", "Suma"} : r[c] = Text(tGarbage)

\* The chunk without its rows of an unparseable date or amount.
GoodOnly ==
    Frame(raw_df.columns, SelectSeq(raw_df.rows, LAMBDA r : ~BadDate(r) /\ ~BadAmount(r)))

\* C12: a row with an unparseable date or amount does not make the run fail;
\* normalize_any_bank keeps the row with a null in place of the value;
\* clean_transactions leaves no record with a null date or amount, and what it
\* returns is what it returns for the chunk without the bad rows.
C12_ParseErrorsDropped ==
    /\ pc # "failed"
    /\ pc \in {"clean", "cleaned"} =>
          /\ df.ok
          /\ Len(df.rows) = Len(raw_df.rows)
          /\ \A k \in Rows(df) :
                /\ IsNull(df.rows[k]["date"]) <=> BadDate(raw_df.rows[k])
                /\ IsNull(df.rows[k]["amount"]) <=> BadAmount(raw_df.rows[k])
    /\ pc = "cleaned" =>
          /\ mdf.ok
          /\ \A k \in Rows(mdf) :
                ~IsNull(mdf.rows[k]["date"]) /\ ~IsNull(mdf.rows[k]["amount"])
          /\ mdf.rows = clean_transactions(normalize_any_bank(GoodOnly)).rows

\* A chunk with a row of a bad date, a row of a bad amount and a valid row: the
\* cleaner returns the valid row alone.
C12_Witness ==
    /\ pc = "cleaned"
    /\ \E i, j \in Rows(raw_df) : BadDate(raw_df.rows[i]) /\ BadAmount(raw_df.rows[j])
    /\ Len(raw_df.rows) = 3
    /\ Len(mdf.rows) = 1
    /\ index = <<3>>

---------------------------------------------------------------------------
(* pipeline.py: run_monthly_report *)

\* The month selectors in use.  A day is counted from 30 September 2025 = day 0,
\* so that day d of 1..31 is d October 2025 and day 32 is 1 November 2025.
Months == {"2025-09", "2025-10", "2025-11"}

\* month_start = pd.to_datetime(f"{month_str}-01").replace(day=1)
month_start(m) ==
    CASE m = "2025-09" -> Ts(0 - 29, 0)
      [] m = "2025-10" -> Ts(1, 0)
      [] m = "2025-11" -> Ts(32, 0)

\* next_month = month_start + pd.offsets.MonthBegin(1)
next_month(m) ==
    CASE m = "2025-09" -> Ts(1, 0)
      [] m = "2025-10" -> Ts(32, 0)
      [] m = "2025-11" -> Ts(62, 0)

\* month_end = next_month - pd.Timedelta(days=1)
month_end(m) == Ts(next_month(m).v[1] - 1, next_month(m).v[2])

\* a <= b for two timestamps
TsLe(a, b) == a.v[1] < b.v[1] \/ (a.v[1] = b.v[1] /\ a.v[2] <= b.v[2])

\* (df["date"] >= month_start) & (df["date"] <= month_end) of one row; a
\* comparison with NaT is False
InMonthMask(r, m) ==
    LET date == to_datetime(r["date"])
    IN  date.t = "ts" /\ TsLe(month_start(m), date) /\ TsLe(date, month_end(m))

\* The rows of df the month filter keeps, as index labels of df in order.
month_index(d, m) == Ascending({k \in Rows(d) : InMonthMask(d.rows[k], m)})

\* df[mask].copy(), line 48
month_filter(d, m) ==
    LET idx == month_index(d, m)
    IN  Frame(d.columns,
              [k \in 1..Len(idx) |-> SetCell(d.rows[idx[k]], "date", to_datetime(d.rows[idx[k]]["date"]))])

\* The states of the file at config_path.
ConfigFiles == {"readable", "empty", "missing", "malformed"}

\* yaml.safe_load(f) or {}
LoadedConfig(file) ==
    IF file = "empty" THEN DefaultConfig
    ELSE Config(NoInvestments, <<>>, DefaultStudents, <<>>, <<Groceries>>)

\* not csv_paths, without the case of an empty list
NoPathsNoneOnly(none, paths) == none

\* not csv_paths: None or an empty list
NoPaths(none, paths) == none \/ paths = <<>>

NoCsvMessage == "No CSVs provided. Use --csv data/raw/*.csv"

ChartFiles == {"expenses_pie.png", "income_pie.png", "investment_pie.png", "daily_spend.png"}
SnapshotFiles == {"clean_transactions.parquet", "clean_transactions.csv"}

\* Lines 32-38: the month bounds, then the config file is opened and parsed.
LoadConfig ==
    /\ pc = "run"
    /\ IF config_path \in {"missing", "malformed"}
       THEN /\ pc' = "failed"
            /\ error' = IF config_path = "missing" THEN "FileNotFoundError" ELSE "YAMLError"
            /\ UNCHANGED config
       ELSE /\ pc' = "config"
            /\ config' = LoadedConfig(config_path)
            /\ UNCHANGED error
    /\ UNCHANGED <<csv_paths, files, raw_df, df, mdf, out, writes, index, order, bank, rev, swe,
                   month_str, config_path, csv_paths_none, artifacts>>

\* Lines 40-41: raise SystemExit when no path was given.
CheckPaths ==
    /\ pc = "config"
    /\ IF NoPaths(csv_paths_none, csv_paths)
       THEN pc' = "failed" /\ error' = NoCsvMessage
       ELSE pc' = "start" /\ UNCHANGED error
    /\ UNCHANGED <<csv_paths, files, config, raw_df, df, mdf, out, writes, index, order, bank,
                   rev, swe, month_str, config_path, csv_paths_none, artifacts>>

\* Lines 47-48: the rows of the month
FilterMonth ==
    /\ pc = "clean"
    /\ mdf' = month_filter(df, month_str)
    /\ pc' = "filtered"
    /\ UNCHANGED <<csv_paths, files, config, raw_df, df, out, writes, index, order, bank, rev,
                   swe>>
    /\ UNCHANGED run

\* Line 50: mdf = clean_transactions(mdf, config)
CleanMonth ==
    /\ pc = "filtered"
    /\ mdf' = clean_transactions(mdf)
    /\ index' = clean_index(mdf)
    /\ pc' = "categorize"
    /\ UNCHANGED <<csv_paths, files, config, raw_df, df, out, writes, order, bank, rev, swe>>
    /\ UNCHANGED run

\* Lines 53-59: the KPIs and the four charts
Charts ==
    /\ pc = "done"
    /\ artifacts' = artifacts \cup ChartFiles
    /\ pc' = "charts"
    /\ UNCHANGED <<csv_paths, files, config, raw_df, df, mdf, out, writes, index, order, bank,
                   rev, swe, month_str, config_path, csv_paths_none, error>>

\* Lines 62-98: render_report writes the HTML file and, when the PDF renderer is
\* there and does not fail, the PDF file.
RenderReport ==
    /\ pc = "charts"
    /\ \E pdf \in BOOLEAN :
          artifacts' = artifacts \cup {"report.html"} \cup (IF pdf THEN {"report.pdf"} ELSE {})
    /\ pc' = "rendered"
    /\ UNCHANGED <<csv_paths, files, config, raw_df, df, mdf, out, writes, index, order, bank,
                   rev, swe, month_str, config_path, csv_paths_none, error>>

\* Lines 100-109: the snapshot in two formats, then the path of the report is returned.
Snapshot ==
    /\ pc = "rendered"
    /\ artifacts' = artifacts \cup SnapshotFiles
    /\ pc' = "returned"
    /\ UNCHANGED <<csv_paths, files, config, raw_df, df, mdf, out, writes, index, order, bank,
                   rev, swe, month_str, config_path, csv_paths_none, error>>

MaxRunRows == 2

\* The dates of the rows of a run's file: 30 September 09:00, 1 October 00:00,
\* 31 October 00:00 and 09:00, 1 November 00:00.
RunDates == {DateText(0, 9), DateText(1, 0), DateText(31, 0), DateText(31, 9), DateText(32, 0)}

RunRows ==
    {[c \in {"Completed Date", "Description", "Amount"} |->
        CASE c = "Completed Date" -> d
          [] c = "Description" -> Text(tShop)
          [] c = "Amount" -> Num(0 - 30)] : d \in RunDates}

RunFiles == {Frame(<<"Completed Date", "Description", "Amount">>, rs) :
                rs \in SeqsUpTo(RunRows, MaxRunRows)}

InitRun ==
    /\ pc = "run"
    /\ month_str \in Months
    /\ config_path \in ConfigFiles
    /\ csv_paths_none \in BOOLEAN
    /\ csv_paths \in (IF csv_paths_none THEN {<<>>} ELSE {<<>>, <<pA>>})
    /\ files \in [Range(csv_paths) -> RunFiles]
    /\ config = DefaultConfig
    /\ raw_df = NoFrame
    /\ df = NoFrame
    /\ mdf = NoFrame
    /\ artifacts = {}
    /\ error = ""
    /\ Idle

NextRun ==
    \/ LoadConfig
    \/ CheckPaths
    \/ Fetch
    \/ NormalizeAnyBank
    \/ FilterMonth
    \/ CleanMonth
    \/ Categorize
    \/ Charts
    \/ RenderReport
    \/ Snapshot

SpecRun == InitRun /\ [][NextRun]_vars

\* Nothing was ingested, normalized, filtered, categorized or written.
NothingProcessed ==
    /\ raw_df = NoFrame
    /\ df = NoFrame
    /\ mdf = NoFrame
    /\ out = NoFrame
    /\ artifacts = {}

\* C13: a run without CSV paths (None or an empty list) and with a readable
\* config file ends in a failure that carries the message, and a run whose config
\* file is missing or unreadable ends in a failure; in both no CSV is ingested, no
\* frame is normalized and no chart, report or snapshot file is written.
C13_NoInputAborts ==
    /\ ((csv_paths_none \/ csv_paths = <<>>) /\ config_path \in {"readable", "empty"}) =>
          /\ pc \in {"run", "config", "failed"}
          /\ pc = "failed" => error = NoCsvMessage
          /\ NothingProcessed
    /\ config_path \in {"missing", "malformed"} =>
          /\ pc \in {"run", "failed"}
          /\ pc = "failed" => error \in {"FileNotFoundError", "YAMLError"}
          /\ NothingProcessed

\* A run with an empty list of paths and a readable config that has failed.
C13_Witness ==
    /\ pc = "failed"
    /\ ~csv_paths_none /\ csv_paths = <<>>
    /\ config_path = "readable"
    /\ error = NoCsvMessage

\* The first and the last day of the calendar month of a selector.
FirstDay(m) == CASE m = "2025-09" -> 0 - 29 [] m = "2025-10" -> 1 [] m = "2025-11" -> 32
LastDay(m) == CASE m = "2025-09" -> 0 [] m = "2025-10" -> 31 [] m = "2025-11" -> 61

InCalendarMonth(r, m) ==
    r["date"].t = "ts" /\ FirstDay(m) <= r["date"].v[1] /\ r["date"].v[1] <= LastDay(m)

\* C15: the records run_monthly_report passes on to cleaning are exactly the
\* normalized records whose date lies in the calendar month of the selector, from
\* its first day through its last day at any time of day, in their order.
C15_MonthFilter ==
    pc = "filtered" =>
        mdf.rows = SelectSeq(df.rows, LAMBDA r : InCalendarMonth(r, month_str))

---------------------------------------------------------------------------
(* The frame effect of categorize_transactions *)

\* C14: categorize_transactions returns one record per input record, in the
\* input's order, each with the nine unified fields of its input record and a
\* category, and it leaves the frame it was given as it was, without a category.
C14_OnlyCategorySet ==
    [][(pc = "categorize" /\ pc' = "done") =>
          /\ mdf' = mdf
          /\ "category" \notin Range(mdf'.columns)
          /\ out'.ok
          /\ out'.columns = Append(mdf.columns, "category")
          /\ Len(out'.rows) = Len(mdf.rows)
          /\ \A i \in Rows(mdf) :
                /\ DOMAIN out'.rows[i] = Range(UNIFIED_COLS) \cup {"category"}
                /\ \A c \in Range(UNIFIED_COLS) : out'.rows[i][c] = mdf.rows[i][c]]_vars

\* Two different records categorized, the first of them by a rule of the cascade.
C14_Witness ==
    /\ pc = "done"
    /\ Len(mdf.rows) = 2
    /\ mdf.rows[1] # mdf.rows[2]
    /\ Len(out.rows) = 2
    /\ out.rows[1]["category"] # config.unknown_category
    /\ out.rows[1]["merchant"] = mdf.rows[1]["merchant"]

=============================================================================
